---- MODULE Spec2Model ----
(***************************************************************************)
(* Preview host orchestrator (orchestrator/index.js): the in-memory        *)
(* registry `previews`, the rolling port allocator, the supervised dev     *)
(* processes, the HTTP handlers (POST /previews, POST /deploy, DELETE      *)
(* /previews/:id, /p/:id) and the idle reaper.                             *)
(*                                                                         *)
(* Node runs one handler at a time; a handler gives up control only at an  *)
(* `await`.  Each action below is the synchronous stretch of one handler   *)
(* between two awaits; the effect of the awaited operation (fs.rm, tar,    *)
(* writeFile, npm install, the readiness probe) takes place at the step    *)
(* that resumes the handler.                                               *)
(***************************************************************************)
EXTENDS Integers, Sequences, FiniteSets, TLC

\* ---- program constants
BASE_PORT == 4000
IdleMs == 1800000
RING_CAP == 4000
\* waitForReady: the timeout of one http.get and the pause before the next
ProbeTimeout == 1500
RetryDelay == 300

\* ---- bounds of the model
\* size of the port window (index.js uses 2000)
PortWindow == 2
\* record objects alive at the same time (registered, referenced or running)
MaxRecs == 4
\* requests started in one run
MaxStarts == 2
\* clock advances in one run
MaxTicks == 1
\* chunks a log ring receives in one run
MaxLog == 2
\* characters of the log text sent with a readiness failure (index.js uses 4000)
TailChars == 4
\* path segments after /p/{id} in a request URL
MaxSegs == 2
\* the largest timeoutMs handed to waitForReady (index.js uses 60000 and 1000000)
MaxWaitMs == 900
\* the small capacities of a ring taken on its own, next to the 4000 of index.js
MaxCap == 2
\* chunks pushed to a ring taken on its own
MaxPushes == 4

\* identifiers clients may use: one more than there are ports
Ids == 1..(PortWindow + 1)
\* identifiers used by the concurrent scenarios
CoreIds == {1, 2}
\* request slots: requests that can be in flight at the same time
Reqs == {1, 2}
RecIds == 1..MaxRecs
Platforms == {"vercel", "netlify"}
Dirs == ({"local"} \cup Platforms) \X Ids

VARIABLES
  cfg,       \* environment: IS_RAILWAY, FORCE_EXTERNAL_DEPLOYMENT, ENABLE_*; scenario limits
  previews,  \* the registry: id -> record object (0: no entry)
  recs,      \* the record objects and the process each local one supervises
  lastPort,  \* the allocator's cursor
  disk,      \* PREVIEWS_ROOT: directory -> exists / has node_modules/.bin/next / files
  reqs,      \* the requests in flight: route, parameters, position, local variables
  resp,      \* the response sent by the last step, if it sent one
  now,       \* Date.now()
  started,   \* requests started so far
  crash      \* history: id -> -1 after the backend of its Running record exited,
             \* q while request q, the next traffic hit, re-provisions it, else 0

vars == <<cfg, previews, recs, lastPort, disk, reqs, resp, now, started, crash>>

\* ---- values

NoRec ==
  [id |-> 0, port |-> 0, dir |-> <<"local", 0>>, lastHit |-> 0, status |-> "none",
   lastError |-> FALSE, ext |-> "none", url |-> 0,
   proc |-> "none", sig |-> FALSE, logs |-> <<>>]

NoReq == [kind |-> "none", id |-> 0, pc |-> "idle", wait |-> FALSE, plat |-> "none", rec |-> 0,
          url |-> <<>>]

\* at: the position of the handler that sent the response; hdr: the request's
\* Authorization header; url: the URL forwarded to the backend; run: the command
\* the step spawned, as <<command, args, cwd>>
NoResp == [q |-> 0, kind |-> "none", id |-> 0, at |-> "none", code |-> 0, status |-> "none",
           port |-> 0, rec |-> 0, logs |-> <<>>, hdr |-> <<>>, url |-> <<>>, run |-> <<>>]

NoDir == [exists |-> FALSE, bin |-> FALSE, files |-> {}]

AUTH_TOKEN == cfg.secret
IS_RAILWAY == cfg.railway
IS_LOCAL == ~IS_RAILWAY
FORCE_EXTERNAL_DEPLOYMENT == cfg.force

\* ---- identifiers and directories

\* the text of an id in a URL
IdChar(i) == <<"1", "2", "3", "4", "5", "6", "7", "8", "9">>[i]

\* The text of id i.  Ids are the client's strings; in the scenarios with
\* cfg.alias the last id is the text "1-v", the id 1 followed by "-vercel".
IdText(i) ==
  IF cfg.alias /\ i = PortWindow + 1 THEN <<IdChar(1), "-", "v">> ELSE <<IdChar(i)>>

\* the name below PREVIEWS_ROOT of path.join(PREVIEWS_ROOT, id) and of
\* path.join(PREVIEWS_ROOT, `${projectId}-${platform}`)
DirName(d) ==
  IF d[1] = "local" THEN IdText(d[2])
  ELSE IdText(d[2]) \o <<"-", IF d[1] = "vercel" THEN "v" ELSE "n">>

\* one directory per name
Canon(d) == CHOOSE e \in Dirs : DirName(e) = DirName(d)

LocalDir(i) == Canon(<<"local", i>>)
ExtDir(i, plat) == Canon(<<plat, i>>)

Min(S) == CHOOSE x \in S : \A y \in S : x <= y

\* ---- makeRing: push appends, and drops the oldest chunk beyond the capacity
RingPushKeep(buf, s, cap) == Append(buf, s)
RingPush(buf, s, cap) ==
  LET b == Append(buf, s) IN IF Len(b) > cap THEN Tail(b) ELSE b

\* a ring of the model takes chunks while the scenario lets it
LogPush(buf, s) == IF Len(buf) < cfg.maxLog THEN RingPush(buf, s, RING_CAP) ELSE buf

\* the chunks written by npm install and by the dev server
NpmChunk == <<"n", "p", "m">>
DevChunk == <<"d", "e", "v">>

\* text(): buf.join("")
RECURSIVE Text(_)
Text(buf) == IF buf = <<>> THEN <<>> ELSE Head(buf) \o Text(Tail(buf))

\* String.prototype.slice(-n): the last n characters, all of them when there are fewer
SliceAll(t, n) == t
SliceLast(t, n) == IF Len(t) <= n THEN t ELSE SubSeq(t, Len(t) - n + 1, Len(t))

\* ---- nextFreePort

\* some record of the registry holds port c
PortHeldNever(pv, rc, c) == FALSE
PortHeld(pv, rc, c) == \E i \in Ids : pv[i] # 0 /\ rc[pv[i]].port = c

\* the i-th candidate after the cursor
CandNoWrap(lp, k) == lp + 1 + k
Cand(lp, k) == ((lp + 1 - BASE_PORT + k) % PortWindow) + BASE_PORT

\* the port returned, or 0 when nextFreePort throws "No free ports available"
nextFreePortLowest(pv, rc, lp) ==
  LET free == {c \in BASE_PORT..(BASE_PORT + PortWindow - 1) : ~PortHeld(pv, rc, c)}
  IN  IF free = {} THEN 0 ELSE Min(free)
nextFreePort(pv, rc, lp) ==
  LET ks == {k \in 0..(PortWindow - 1) : ~PortHeld(pv, rc, Cand(lp, k))}
  IN  IF ks = {} THEN 0 ELSE Cand(lp, Min(ks))

\* ---- the process table

Alive(rc, r) == rc[r].proc \in {"booting", "up"}

\* something answers on 127.0.0.1:port
Listening(rc, port) == \E r \in RecIds : rc[r].proc = "up" /\ rc[r].port = port

\* proc.kill("SIGTERM") inside try/catch: a null proc throws and is ignored,
\* an exited process is not signalled
Kill(rc, r) ==
  IF Alive(rc, r) THEN [rc EXCEPT ![r].sig = TRUE] ELSE rc

\* ---- record objects: an object lives while the registry, a handler's local
\* variable or the last response refers to it, or while its process runs
Referenced(pv, rq, rs) ==
  {pv[i] : i \in Ids} \cup {rq[q].rec : q \in Reqs} \cup {rs.rec}

Collect(pv, rq, rs, rc) ==
  [r \in RecIds |-> IF r \in Referenced(pv, rq, rs) \/ Alive(rc, r) THEN rc[r] ELSE NoRec]

FreeRecs(rc) == {r \in RecIds : rc[r].id = 0}
NewRec(rc) == Min(FreeRecs(rc))

\* one step's outcome
Commit(pv, rq, rs, rc) ==
  /\ previews' = pv
  /\ reqs' = rq
  /\ resp' = rs
  /\ recs' = Collect(pv, rq, rs, rc)

InFlight == {q \in Reqs : reqs[q].pc # "idle"}

\* ---- requireAuth

Bearer(tok) == <<"Bearer", " ", tok>>

\* the Authorization headers clients send: none, the secret, another token,
\* the secret without the scheme
Hdrs == {<<>>, Bearer("s"), Bearer("x"), <<"s">>}

requireAuth(hdr) == AUTH_TOKEN = "" \/ hdr = Bearer(AUTH_TOKEN)

\* the header of a request that got past requireAuth
Credential == IF AUTH_TOKEN = "" THEN <<>> ELSE Bearer(AUTH_TOKEN)

\* the response of request q; /p/:id carries no credential
Reply(rq, q, code, status, port, r, logs) ==
  [q |-> q, kind |-> rq[q].kind, id |-> rq[q].id, at |-> rq[q].pc, code |-> code,
   status |-> status, port |-> port, rec |-> r, logs |-> logs,
   hdr |-> IF rq[q].kind = "traffic" THEN <<>> ELSE Credential, url |-> <<>>, run |-> <<>>]

Done(q) == [reqs EXCEPT ![q] = NoReq]
Goto(q, pc) == [reqs EXCEPT ![q].pc = pc]

\* ---- history of crashes (no effect on the program)

\* the request that was re-provisioning has answered
Settled == [i \in Ids |-> IF crash[i] \in Reqs /\ reqs[crash[i]].pc = "idle" THEN 0 ELSE crash[i]]

NoCrash == crash' = Settled

\* a create, deploy or delete of id i starts: the crash is no longer the last event of i
Overtaken(i) == crash' = [Settled EXCEPT ![i] = IF @ = -1 THEN 0 ELSE @]

\* ---- Init

Scenario(railway, nids, conc, starts, ticks, maxLog) ==
  [railway |-> railway, force |-> railway, vercel |-> TRUE, netlify |-> FALSE,
   ids |-> nids, conc |-> conc, starts |-> starts, ticks |-> ticks, maxLog |-> maxLog,
   secret |-> "", paths |-> FALSE, exec |-> FALSE, alias |-> FALSE, timeoutMs |-> 0]

InitState ==
  /\ previews = [i \in Ids |-> 0]
  /\ recs = [r \in RecIds |-> NoRec]
  /\ lastPort = BASE_PORT - 1
  /\ disk = [d \in Dirs |-> NoDir]
  /\ reqs = [q \in Reqs |-> NoReq]
  /\ resp = NoResp
  /\ now = 0
  /\ started = 0
  /\ crash = [i \in Ids |-> 0]

\* The state after k previews were created one after the other with wait = true
\* and came up: ids 1..k hold the first k ports of the window.
UpRec(i) ==
  [id |-> i, port |-> BASE_PORT + i - 1, dir |-> LocalDir(i), lastHit |-> 0,
   status |-> "running", lastError |-> FALSE, ext |-> "none", url |-> 0,
   proc |-> "up", sig |-> FALSE, logs |-> <<>>]

Preloaded(k) ==
  /\ previews = [i \in Ids |-> IF i <= k THEN i ELSE 0]
  /\ recs = [r \in RecIds |-> IF r <= k THEN UpRec(r) ELSE NoRec]
  /\ lastPort = BASE_PORT + k - 1
  /\ disk = [d \in Dirs |->
              IF d[1] = "local" /\ d[2] <= k
              THEN [exists |-> TRUE, bin |-> TRUE, files |-> {1}] ELSE NoDir]
  /\ reqs = [q \in Reqs |-> NoReq]
  /\ resp = NoResp
  /\ now = 0
  /\ started = 0
  /\ crash = [i \in Ids |-> 0]

Init ==
  /\ cfg = Scenario(FALSE, CoreIds, 2, MaxStarts, 0, 0)
  /\ InitState

CanStart(q) ==
  /\ reqs[q].pc = "idle"
  /\ started < cfg.starts
  /\ Cardinality(InFlight) < cfg.conc

\* ---- the file system

existsAlways(dk, d) == TRUE
existsSync(dk, d) == dk[d].exists

rmDirSkip(dk, d) == dk
rmDir(dk, d) == [dk EXCEPT ![d] = NoDir]

\* mkdir -p, tar of the boilerplate, then rm of node_modules and the build dirs
copyBoilerplate(dk, d) ==
  [dk EXCEPT ![d] = [exists |-> TRUE, bin |-> FALSE, files |-> @.files]]

\* mkdir -p of each file's directory, then writeFile; q names the request's file set
writeFiles(dk, d, q) ==
  [dk EXCEPT ![d] = [exists |-> TRUE, bin |-> @.bin, files |-> @.files \cup {q}]]

\* npm install that ended well leaves node_modules/.bin/next
installed(dk, d) == [dk EXCEPT ![d].bin = TRUE]

needInstallAlways(dk, d) == TRUE
needInstall(dk, d) == ~(dk[d].exists /\ dk[d].bin)

\* ---- allocate, register, spawn: one synchronous stretch

NewLocalRec(i, port, logs) ==
  [id |-> i, port |-> port, dir |-> LocalDir(i), lastHit |-> now, status |-> "starting",
   lastError |-> FALSE, ext |-> "none", url |-> 0,
   proc |-> "booting", sig |-> FALSE, logs |-> logs]

NewExtRec(i, plat, url, logs) ==
  [id |-> i, port |-> 0, dir |-> ExtDir(i, plat), lastHit |-> now, status |-> "deployed",
   lastError |-> FALSE, ext |-> plat, url |-> url,
   proc |-> "none", sig |-> FALSE, logs |-> logs]

\* previews.set(id, rec)
SetSkip(pv, i, n) == pv
Set(pv, i, n) == [pv EXCEPT ![i] = n]

\* previews.delete(id)
Delete(pv, i) == [pv EXCEPT ![i] = 0]

\* the tail of the ring's text sent with a readiness failure
LogTail(rc, r) == SliceLast(Text(rc[r].logs), TailChars)

\* The stretch from the end of the install to the await of the readiness probe
\* (POST /previews 790-819, handleLocalDeployment 643-695): q is the request,
\* logs its ring.
ProvisionLocal(q, logs) ==
  LET i == reqs[q].id
      port == nextFreePort(previews, recs, lastPort)
      n == NewRec(recs)
      rc == [recs EXCEPT ![n] = NewLocalRec(i, port, logs)]
      pv == Set(previews, i, n)
  IN  IF port = 0
      THEN \* caught by the handler's try/catch: 500
           /\ Commit(previews, Done(q), Reply(reqs, q, 500, "none", 0, 0, <<>>), recs)
           /\ UNCHANGED lastPort
      ELSE /\ FreeRecs(recs) # {}
           /\ lastPort' = port
           /\ IF reqs[q].wait
              THEN Commit(pv, [reqs EXCEPT ![q].pc = "probe", ![q].rec = n], NoResp, rc)
              ELSE Commit(pv, Done(q), Reply(reqs, q, 200, "starting", port, n, <<>>), rc)

\* ---- POST /previews and handleLocalDeployment

\* From the registry lookup to the first await.  rq holds the request in slot q.
EnterLocal(q, rq) ==
  LET i == rq[q].id
      r == previews[i]
  IN  IF r # 0
      THEN IF rq[q].kind = "create" /\ recs[r].ext # "none"
           THEN Commit(previews, [rq EXCEPT ![q].pc = "xpwrite", ![q].rec = r], NoResp, recs)
           ELSE IF rq[q].kind = "deploy" \/ IS_LOCAL
           THEN Commit(previews, [rq EXCEPT ![q].pc = "patch", ![q].rec = r], NoResp, recs)
           ELSE Commit(previews, [rq EXCEPT ![q] = NoReq],
                       Reply(rq, q, 400, "none", 0, 0, <<>>), recs)
      ELSE IF rq[q].kind = "create" /\ IS_RAILWAY /\ FORCE_EXTERNAL_DEPLOYMENT
           THEN Commit(previews, [rq EXCEPT ![q] = NoReq],
                       Reply(rq, q, 400, "none", 0, 0, <<>>), recs)
           ELSE Commit(previews,
                       [rq EXCEPT ![q].pc = IF existsSync(disk, LocalDir(i)) THEN "rm" ELSE "copy"],
                       NoResp, recs)

StartCreate(q, i, w) ==
  /\ CanStart(q)
  /\ started' = started + 1
  /\ EnterLocal(q, [reqs EXCEPT ![q] =
       [kind |-> "create", id |-> i, pc |-> "start", wait |-> w, plat |-> "none", rec |-> 0,
        url |-> <<>>]])
  /\ UNCHANGED <<cfg, lastPort, disk, now>>
  /\ Overtaken(i)

\* a patch that moved the record to the next free port
PatchRealloc(q) ==
  /\ reqs[q].pc = "patch"
  /\ LET r == reqs[q].rec
         port == nextFreePort(previews, recs, lastPort)
         rc == [recs EXCEPT ![r].lastHit = now, ![r].port = port]
     IN  /\ disk' = writeFiles(disk, recs[r].dir, q)
         /\ Commit(previews, Done(q), Reply(reqs, q, 200, rc[r].status, rc[r].port, r, <<>>), rc)
  /\ UNCHANGED <<cfg, lastPort, now, started>>
  /\ NoCrash

\* existing local record: write the files, refresh lastHit, answer
Patch(q) ==
  /\ reqs[q].pc = "patch"
  /\ LET r == reqs[q].rec
         rc == [recs EXCEPT ![r].lastHit = now]
     IN  /\ disk' = writeFiles(disk, recs[r].dir, q)
         /\ Commit(previews, Done(q), Reply(reqs, q, 200, rc[r].status, rc[r].port, r, <<>>), rc)
  /\ UNCHANGED <<cfg, lastPort, now, started>>
  /\ NoCrash

\* existing external record: write the files, then redeploy to the platform
ExtPatchWrite(q) ==
  /\ reqs[q].pc = "xpwrite"
  /\ disk' = writeFiles(disk, recs[reqs[q].rec].dir, q)
  /\ Commit(previews, Goto(q, "xpdeploy"), NoResp, recs)
  /\ UNCHANGED <<cfg, lastPort, now, started>>
  /\ NoCrash

\* running.lastHit = Date.now(); running.deploymentUrl = deploymentUrl
RedeployedNot(rec, url, t) == rec
Redeployed(rec, url, t) == [rec EXCEPT !.lastHit = t, !.url = url]

ExtPatchDeploy(q, ok) ==
  /\ reqs[q].pc = "xpdeploy"
  /\ LET r == reqs[q].rec
         rc == [recs EXCEPT ![r] = Redeployed(@, q, now)]
     IN  IF ok
         THEN Commit(previews, Done(q), Reply(reqs, q, 200, "deployed", 0, r, <<>>), rc)
         ELSE Commit(previews, Done(q), Reply(reqs, q, 500, "none", 0, r, <<>>), recs)
  /\ UNCHANGED <<cfg, lastPort, disk, now, started>>
  /\ NoCrash

\* clean slate: fs.rm of the id's directory
CleanDir(q) ==
  /\ reqs[q].pc = "rm"
  /\ disk' = rmDir(disk, LocalDir(reqs[q].id))
  /\ Commit(previews, Goto(q, "copy"), NoResp, recs)
  /\ UNCHANGED <<cfg, lastPort, now, started>>
  /\ NoCrash

CopyBoilerplate(q, ok) ==
  /\ reqs[q].pc = "copy"
  /\ disk' = copyBoilerplate(disk, LocalDir(reqs[q].id))
  /\ IF ok
     THEN Commit(previews, Goto(q, "write"), NoResp, recs)
     ELSE Commit(previews, Done(q), Reply(reqs, q, 500, "none", 0, 0, <<>>), recs)
  /\ UNCHANGED <<cfg, lastPort, now, started>>
  /\ NoCrash

WriteFiles(q) ==
  /\ reqs[q].pc = "write"
  /\ disk' = writeFiles(disk, LocalDir(reqs[q].id), q)
  /\ Commit(previews, Goto(q, "install"), NoResp, recs)
  /\ UNCHANGED <<cfg, lastPort, now, started>>
  /\ NoCrash

\* npm install ends; on success the handler allocates, registers and spawns
Install(q, ok) ==
  /\ reqs[q].pc = "install"
  /\ LET d == LocalDir(reqs[q].id)
     IN  IF ok /\ disk[d].exists
         THEN /\ disk' = installed(disk, d)
              /\ ProvisionLocal(q, LogPush(<<>>, NpmChunk))
         ELSE /\ Commit(previews, Done(q), Reply(reqs, q, 500, "none", 0, 0, <<>>), recs)
              /\ UNCHANGED <<lastPort, disk>>
  /\ UNCHANGED <<cfg, now, started>>
  /\ NoCrash

\* waitForReady resolves: true when something answered on the port, false when
\* a probe failed after the deadline
waitForReadyAlways(rc, port, ok) == TRUE
waitForReady(rc, port, ok) == ok = Listening(rc, port)

Probe(q, ok) ==
  /\ reqs[q].pc = "probe"
  /\ LET r == reqs[q].rec
         i == reqs[q].id
     IN  /\ waitForReady(recs, recs[r].port, ok)
         /\ IF ok
            THEN Commit(previews, Done(q),
                        Reply(reqs, q, 200, "running", recs[r].port, r, <<>>),
                        [recs EXCEPT ![r].status = "running"])
            ELSE Commit(Delete(previews, i), Done(q),
                        Reply(reqs, q, 500, "starting", 0, r, LogTail(recs, r)), recs)
  /\ UNCHANGED <<cfg, lastPort, disk, now, started>>
  /\ NoCrash

\* ---- POST /deploy

PlatInputs == {"none", "vercel"}

\* effectiveDeployToExternal
Effective(plat) ==
  IF IS_RAILWAY /\ FORCE_EXTERNAL_DEPLOYMENT
  THEN (IF plat = "none" THEN "vercel" ELSE plat)
  ELSE plat

PlatformEnabled(plat) ==
  \/ plat = "vercel" /\ cfg.vercel
  \/ plat = "netlify" /\ cfg.netlify

StartDeploy(q, i, w, plat) ==
  /\ CanStart(q)
  /\ started' = started + 1
  /\ LET eff == Effective(plat)
         rq == [reqs EXCEPT ![q] =
                  [kind |-> "deploy", id |-> i, pc |-> "start", wait |-> w, plat |-> eff,
                   rec |-> 0, url |-> <<>>]]
     IN  IF PlatformEnabled(eff)
         THEN \* handleExternalDeployment up to its first await
              Commit(previews,
                     [rq EXCEPT ![q].pc = IF existsSync(disk, ExtDir(i, eff)) THEN "xrm" ELSE "xcopy"],
                     NoResp, recs)
         ELSE IF IS_RAILWAY /\ FORCE_EXTERNAL_DEPLOYMENT
         THEN Commit(previews, reqs, Reply(rq, q, 400, "none", 0, 0, <<>>), recs)
         ELSE EnterLocal(q, rq)
  /\ UNCHANGED <<cfg, lastPort, disk, now>>
  /\ Overtaken(i)

ExtCleanDir(q) ==
  /\ reqs[q].pc = "xrm"
  /\ disk' = rmDir(disk, ExtDir(reqs[q].id, reqs[q].plat))
  /\ Commit(previews, Goto(q, "xcopy"), NoResp, recs)
  /\ UNCHANGED <<cfg, lastPort, now, started>>
  /\ NoCrash

ExtCopyBoilerplate(q, ok) ==
  /\ reqs[q].pc = "xcopy"
  /\ disk' = copyBoilerplate(disk, ExtDir(reqs[q].id, reqs[q].plat))
  /\ IF ok
     THEN Commit(previews, Goto(q, "xwrite"), NoResp, recs)
     ELSE Commit(previews, Done(q), Reply(reqs, q, 500, "none", 0, 0, <<>>), recs)
  /\ UNCHANGED <<cfg, lastPort, now, started>>
  /\ NoCrash

ExtWriteFiles(q) ==
  /\ reqs[q].pc = "xwrite"
  /\ disk' = writeFiles(disk, ExtDir(reqs[q].id, reqs[q].plat), q)
  /\ Commit(previews, Goto(q, "xinstall"), NoResp, recs)
  /\ UNCHANGED <<cfg, lastPort, now, started>>
  /\ NoCrash

ExtInstall(q, ok) ==
  /\ reqs[q].pc = "xinstall"
  /\ LET d == ExtDir(reqs[q].id, reqs[q].plat)
     IN  IF ok /\ disk[d].exists
         THEN /\ disk' = installed(disk, d)
              /\ Commit(previews, Goto(q, "xdeploy"), NoResp, recs)
         ELSE /\ Commit(previews, Done(q), Reply(reqs, q, 500, "none", 0, 0, <<>>), recs)
              /\ UNCHANGED disk
  /\ UNCHANGED <<cfg, lastPort, now, started>>
  /\ NoCrash

\* deployToVercel / deployToNetlify ends: register the external record, or
\* fall back to handleLocalDeployment with wait = true
ExtDeploy(q, ok) ==
  /\ reqs[q].pc = "xdeploy"
  /\ LET i == reqs[q].id
         n == NewRec(recs)
     IN  IF ok
         THEN /\ FreeRecs(recs) # {}
              /\ Commit(Set(previews, i, n), Done(q),
                        Reply(reqs, q, 200, "completed", 0, n, <<>>),
                        [recs EXCEPT ![n] = NewExtRec(i, reqs[q].plat, q, LogPush(<<>>, NpmChunk))])
         ELSE EnterLocal(q, [reqs EXCEPT ![q].wait = TRUE])
  /\ UNCHANGED <<cfg, lastPort, disk, now, started>>
  /\ NoCrash

\* ---- DELETE /previews/:id

StartDelete(q, i) ==
  /\ CanStart(q)
  /\ started' = started + 1
  /\ LET p == previews[i]
         rq == [reqs EXCEPT ![q] =
                  [kind |-> "delete", id |-> i, pc |-> "delrm", wait |-> FALSE,
                   plat |-> "none", rec |-> p, url |-> <<>>]]
     IN  IF p # 0
         THEN Commit(Delete(previews, i), rq, NoResp, Kill(recs, p))
         ELSE Commit(previews, rq, NoResp, recs)
  /\ UNCHANGED <<cfg, lastPort, disk, now>>
  /\ Overtaken(i)

\* fs.rm(PREVIEWS_ROOT/id, force) ends; res.json({ok: true})
DeleteDir(dk, i) == rmDir(dk, LocalDir(i))

FinishDelete(q) ==
  /\ reqs[q].pc = "delrm"
  /\ disk' = DeleteDir(disk, reqs[q].id)
  /\ Commit(previews, Done(q), Reply(reqs, q, 200, "ok", 0, reqs[q].rec, <<>>), recs)
  /\ UNCHANGED <<cfg, lastPort, now, started>>
  /\ NoCrash

\* ---- GET /previews/:id/status
StatusEndpoint(i) ==
  IF previews[i] = 0
  THEN [code |-> 404, status |-> "not_found", port |-> 0, lastError |-> FALSE]
  ELSE [code |-> 200, status |-> recs[previews[i]].status, port |-> recs[previews[i]].port,
        lastError |-> recs[previews[i]].lastError]

\* ---- /p/:id

\* the text /p/{id}
Prefix(i) == <<"/", "p", "/">> \o IdText(i)

\* what follows /p/{id} in the URLs of the model: up to MaxSegs segments, each
\* /x or the text /p/{id} again, then an optional query string
RECURSIVE Paths(_, _)
Paths(i, n) ==
  IF n = 0 THEN {<<>>}
  ELSE Paths(i, n - 1) \cup {r \o sg : r \in Paths(i, n - 1), sg \in {<<"/", "x">>, Prefix(i)}}

Rests(i) == {r \o qs : r \in Paths(i, MaxSegs), qs \in {<<>>, <<"?", "x">>}}

\* the request URLs of the scenario for id i
Urls(i) == IF cfg.paths THEN {Prefix(i) \o r : r \in Rests(i)} ELSE {Prefix(i)}

\* express app.use("/p/:id", ..): req.url is the URL with the mount path cut
\* from its front, and a "/" put in front when what is left does not start with one
MountStrip(url, i) ==
  LET rest == SubSeq(url, Len(Prefix(i)) + 1, Len(url))
  IN  IF rest # <<>> /\ Head(rest) = "/" THEN rest ELSE <<"/">> \o rest

\* String.prototype.replace(pattern, "") with a string pattern: the first occurrence goes
ReplaceFirst(t, pat) ==
  LET at == {k \in 1..(Len(t) - Len(pat) + 1) : SubSeq(t, k, k + Len(pat) - 1) = pat}
  IN  IF at = {} THEN t
      ELSE SubSeq(t, 1, Min(at) - 1) \o SubSeq(t, Min(at) + Len(pat), Len(t))

\* req.url = req.url.replace(`/p/${id}`, "") || "/"
Rewrite(url, i) ==
  LET u == ReplaceFirst(MountStrip(url, i), Prefix(i))
  IN  IF u = <<>> THEN <<"/">> ELSE u

\* proxy.on("error", (err, req, res)): res is the ServerResponse of proxy.web,
\* and the client socket of proxy.ws, which has neither headersSent nor
\* writeHead: the call throws inside the listener and nothing catches it
proxyOnError(web, headersSent) ==
  IF web
  THEN IF ~headersSent THEN [code |-> 502, status |-> "unreachable"]
                       ELSE [code |-> 0, status |-> "destroyed"]
  ELSE [code |-> 0, status |-> "uncaught"]

\* the tail of the handler, from `if (!p)` (927) on, for record object r:
\* redirect, proxy (502 from proxy.on("error") when nothing answers), or 404
Serve(q, rq, pv, rc, r) ==
  IF IS_RAILWAY /\ rc[r].ext # "none" /\ rc[r].url # 0
  THEN Commit(pv, [rq EXCEPT ![q] = NoReq], Reply(rq, q, 302, rc[r].status, 0, r, <<>>), rc)
  ELSE IF IS_LOCAL /\ rc[r].port # 0
  THEN Commit(pv, [rq EXCEPT ![q] = NoReq],
              [Reply(rq, q, IF Listening(rc, rc[r].port) THEN 200 ELSE proxyOnError(TRUE, FALSE).code,
                     rc[r].status, rc[r].port, r, <<>>)
                 EXCEPT !.url = Rewrite(rq[q].url, rq[q].id)],
              [rc EXCEPT ![r].lastHit = now])
  ELSE Commit(pv, [rq EXCEPT ![q] = NoReq], Reply(rq, q, 404, "none", 0, r, <<>>), rc)

StartTraffic(q, i, u) ==
  /\ CanStart(q)
  /\ started' = started + 1
  /\ LET p == previews[i]
         rq == [reqs EXCEPT ![q] =
                  [kind |-> "traffic", id |-> i, pc |-> "start", wait |-> TRUE,
                   plat |-> "none", rec |-> 0, url |-> u]]
     IN  IF p # 0
         THEN Serve(q, rq, previews, recs, p)
         ELSE IF (IS_RAILWAY /\ FORCE_EXTERNAL_DEPLOYMENT) \/ ~existsSync(disk, LocalDir(i))
         THEN Commit(previews, reqs, Reply(rq, q, 404, "none", 0, 0, <<>>), recs)
         ELSE Commit(previews, [rq EXCEPT ![q].pc = "needInstall"], NoResp, recs)
  /\ UNCHANGED <<cfg, lastPort, disk, now>>
  /\ crash' = [Settled EXCEPT ![i] =
       IF @ = -1
       THEN (IF previews[i] = 0 /\ reqs'[q].pc = "needInstall" THEN q ELSE 0)
       ELSE @]

\* An exception thrown in an async handler outside any try/catch rejects the
\* handler's promise.  What follows depends on the express the image installs:
\* express 4 drops the promise, the rejection is unhandled (code 0) and node
\* ends the process; express 5 passes it to its error handler, which answers 500.
Rejection == {[code |-> 0, status |-> "unhandled"], [code |-> 500, status |-> "none"]}

\* allocate, register, spawn, then await waitForReady(port, 60000); nextFreePort
\* throws outside any try/catch
SelfHeal(q, logs) ==
  LET i == reqs[q].id
      port == nextFreePort(previews, recs, lastPort)
      n == NewRec(recs)
  IN  IF port = 0
      THEN /\ \E o \in Rejection :
                Commit(previews, Done(q), Reply(reqs, q, o.code, o.status, 0, 0, <<>>), recs)
           /\ UNCHANGED lastPort
      ELSE /\ FreeRecs(recs) # {}
           /\ lastPort' = port
           /\ Commit(Set(previews, i, n), [reqs EXCEPT ![q].pc = "tprobe", ![q].rec = n], NoResp,
                     [recs EXCEPT ![n] = NewLocalRec(i, port, logs)])

TrafficNeedInstall(q) ==
  /\ reqs[q].pc = "needInstall"
  /\ IF needInstall(disk, LocalDir(reqs[q].id))
     THEN /\ Commit(previews, Goto(q, "tinstall"), NoResp, recs)
          /\ UNCHANGED lastPort
     ELSE SelfHeal(q, <<>>)
  /\ UNCHANGED <<cfg, disk, now, started>>
  /\ NoCrash

\* the install's failure swallowed
TrafficInstallAnyway(q, ok) ==
  /\ reqs[q].pc = "tinstall"
  /\ LET d == LocalDir(reqs[q].id)
     IN  /\ disk' = IF ok /\ disk[d].exists THEN installed(disk, d) ELSE disk
         /\ SelfHeal(q, LogPush(<<>>, NpmChunk))
  /\ UNCHANGED <<cfg, now, started>>
  /\ NoCrash

TrafficInstall(q, ok) ==
  /\ reqs[q].pc = "tinstall"
  /\ LET d == LocalDir(reqs[q].id)
     IN  IF ok /\ disk[d].exists
         THEN /\ disk' = installed(disk, d)
              /\ SelfHeal(q, LogPush(<<>>, NpmChunk))
         ELSE /\ Commit(previews, Done(q), Reply(reqs, q, 500, "none", 0, 0, <<>>), recs)
              /\ UNCHANGED <<lastPort, disk>>
  /\ UNCHANGED <<cfg, now, started>>
  /\ NoCrash

TrafficProbe(q, ok) ==
  /\ reqs[q].pc = "tprobe"
  /\ LET r == reqs[q].rec
         i == reqs[q].id
     IN  /\ waitForReady(recs, recs[r].port, ok)
         /\ IF ok
            THEN Serve(q, reqs, previews, [recs EXCEPT ![r].status = "running"], r)
            ELSE Commit(Delete(previews, i), Done(q),
                        Reply(reqs, q, 503, "starting", 0, r, <<>>), recs)
  /\ UNCHANGED <<cfg, lastPort, disk, now, started>>
  /\ NoCrash

\* ---- server.on("upgrade"): the WebSocket pass-through, one synchronous handler

Upgrade(q, i) ==
  /\ CanStart(q)
  /\ started' = started + 1
  /\ LET p == previews[i]
         rs == [NoResp EXCEPT !.q = q, !.kind = "upgrade", !.id = i, !.at = "start", !.rec = p]
     IN  IF p = 0
         THEN Commit(previews, reqs, [rs EXCEPT !.status = "destroyed"], recs)
         ELSE IF Listening(recs, recs[p].port)
         THEN Commit(previews, reqs,
                     [rs EXCEPT !.code = 101, !.status = "spliced", !.port = recs[p].port], recs)
         ELSE Commit(previews, reqs,
                     [rs EXCEPT !.code = proxyOnError(FALSE, FALSE).code,
                                !.status = proxyOnError(FALSE, FALSE).status,
                                !.port = recs[p].port], recs)
  /\ UNCHANGED <<cfg, lastPort, disk, now>>
  /\ NoCrash

\* ---- the management endpoints that answer in one synchronous stretch

\* the routes registered with requireAuth
Protected == {"create", "deploy", "delete", "execute"}

\* requireAuth answers 401 and the route's handler does not run
Rejected(q, kind, i, hdr) ==
  /\ CanStart(q)
  /\ ~requireAuth(hdr)
  /\ started' = started + 1
  /\ Commit(previews, reqs,
            [NoResp EXCEPT !.q = q, !.kind = kind, !.id = i, !.at = "auth", !.code = 401,
                           !.status = "unauthorized", !.hdr = hdr], recs)
  /\ UNCHANGED <<cfg, lastPort, disk, now>>
  /\ NoCrash

\* GET /previews/:id/status, registered without requireAuth
Status(q, i, hdr) ==
  /\ CanStart(q)
  /\ started' = started + 1
  /\ Commit(previews, reqs,
            [NoResp EXCEPT !.q = q, !.kind = "status", !.id = i, !.at = "start",
                           !.code = StatusEndpoint(i).code, !.status = StatusEndpoint(i).status,
                           !.port = StatusEndpoint(i).port, !.rec = previews[i], !.hdr = hdr],
            recs)
  /\ UNCHANGED <<cfg, lastPort, disk, now>>
  /\ NoCrash

\* GET /previews/:id/logs, registered without requireAuth
Logs(q, i, hdr) ==
  /\ CanStart(q)
  /\ started' = started + 1
  /\ LET p == previews[i]
         rs == [NoResp EXCEPT !.q = q, !.kind = "logs", !.id = i, !.at = "start", !.rec = p,
                              !.hdr = hdr]
     IN  IF p = 0
         THEN Commit(previews, reqs, [rs EXCEPT !.code = 404, !.status = "not_found"], recs)
         ELSE Commit(previews, reqs,
                     [rs EXCEPT !.code = 200, !.status = "text", !.logs = Text(recs[p].logs)],
                     recs)
  /\ UNCHANGED <<cfg, lastPort, disk, now>>
  /\ NoCrash

\* ---- POST /previews/:id/execute

\* paths are sequences of segments, a segment is a sequence of characters
PREVIEWS_ROOT == <<"r">>

\* path.join(PREVIEWS_ROOT, id) and path.join(PREVIEWS_ROOT, `${projectId}-${platform}`)
PathOf(d) == <<PREVIEWS_ROOT, DirName(d)>>

\* path.join(dir, workingDirectory): "." is dropped, ".." takes the last segment away
RECURSIVE Join(_, _)
Join(path, wd) ==
  IF wd = <<>> THEN path
  ELSE IF Head(wd) = <<".">> THEN Join(path, Tail(wd))
  ELSE IF Head(wd) = <<".", ".">>
  THEN Join(IF path = <<>> THEN <<>> ELSE SubSeq(path, 1, Len(path) - 1), Tail(wd))
  ELSE Join(Append(path, Head(wd)), Tail(wd))

\* the text of a path
RECURSIVE PathText(_)
PathText(path) ==
  IF path = <<>> THEN <<>> ELSE <<"/">> \o Head(path) \o PathText(Tail(path))

\* String.prototype.startsWith
StartsWith(t, pre) == Len(pre) <= Len(t) /\ SubSeq(t, 1, Len(pre)) = pre

\* existsSync of a path: the directories of the model, and PREVIEWS_ROOT itself
ExistsPath(dk, path) ==
  \/ path = <<PREVIEWS_ROOT>>
  \/ \E d \in Dirs : PathOf(d) = path /\ existsSync(dk, d)

allowedCommands ==
  {"grep", "find", "tree", "cat", "head", "tail", "wc", "ls", "pwd",
   "file", "which", "type", "dirname", "basename", "realpath"}

\* args.length > 10
MaxArgs == 10

\* a pattern is a sequence of character sets; \s is the white space
Lits(t) == [k \in 1..Len(t) |-> {t[k]}]
WhiteSpace == {" ", "tab", "newline"}

dangerousPatterns ==
  { <<{";", "&", "|", "backtick", "$"}>>,
    Lits(<<".", ".">>),
    Lits(<<"/", "e", "t", "c", "/">>), Lits(<<"/", "p", "r", "o", "c", "/">>),
    Lits(<<"/", "s", "y", "s", "/">>),
    Lits(<<"r", "m">>) \o <<WhiteSpace>>, Lits(<<"d", "e", "l">>) \o <<WhiteSpace>>,
    Lits(<<"m", "v">>) \o <<WhiteSpace>>, Lits(<<"c", "p">>) \o <<WhiteSpace>>,
    Lits(<<"w", "g", "e", "t">>), Lits(<<"c", "u", "r", "l">>),
    Lits(<<"n", "c">>) \o <<WhiteSpace>>, Lits(<<"n", "e", "t", "c", "a", "t">>),
    Lits(<<"e", "v", "a", "l">>), Lits(<<"e", "x", "e", "c">>),
    Lits(<<"s", "y", "s", "t", "e", "m">>) }

\* pattern.test(arg)
Test(pat, t) ==
  \E k \in 1..(Len(t) - Len(pat) + 1) : \A j \in 1..Len(pat) : t[k + j - 1] \in pat[j]

Dangerous(arg) == \E pat \in dangerousPatterns : Test(pat, arg)

\* the request bodies of the scenario: command, args, workingDirectory
SafeArg == <<"-", "l">>

ArgChoices ==
  {SafeArg, <<".", ".">>, <<"a", ";", "b">>, <<"/", "e", "t", "c", "/", "x">>,
   <<"r", "m", " ", "x">>, <<"c", "u", "r", "l">>, <<"e", "v", "a", "l">>}

ArgLists ==
  {<<>>} \cup {<<a>> : a \in ArgChoices} \cup {<<SafeArg, a>> : a \in ArgChoices}
  \cup {[k \in 1..MaxArgs |-> SafeArg], [k \in 1..(MaxArgs + 1) |-> SafeArg]}

WorkDirs ==
  {<<<<".">>>>, <<<<".", ".">>>>} \cup {<<<<".", ".">>, DirName(d)>> : d \in Dirs}

DefaultBody == [command |-> "ls", args |-> <<>>, wd |-> <<<<".">>>>]

Bodies ==
  IF cfg.exec
  THEN [command : {"", "ls", "cat", "rm", "sh"}, args : {<<>>}, wd : WorkDirs]
       \cup [command : {"ls", "rm"}, args : ArgLists, wd : {<<<<".">>>>}]
  ELSE {DefaultBody}

\* POST /previews/:id/execute past requireAuth: the checks of the body, then
\* the lookup, the working directory and run(), which spawns the command
Execute(q, i, b) ==
  /\ CanStart(q)
  /\ started' = started + 1
  /\ LET p == previews[i]
         rs == [NoResp EXCEPT !.q = q, !.kind = "execute", !.id = i, !.at = "start",
                              !.hdr = Credential]
         full == Join(PathOf(recs[p].dir), b.wd)
     IN  IF b.command = ""
         THEN Commit(previews, reqs, [rs EXCEPT !.code = 400, !.status = "no_command"], recs)
         ELSE IF b.command \notin allowedCommands
         THEN Commit(previews, reqs, [rs EXCEPT !.code = 400, !.status = "not_allowed"], recs)
         ELSE IF Len(b.args) > MaxArgs
         THEN Commit(previews, reqs, [rs EXCEPT !.code = 400, !.status = "too_many"], recs)
         ELSE IF \E k \in 1..Len(b.args) : Dangerous(b.args[k])
         THEN Commit(previews, reqs, [rs EXCEPT !.code = 400, !.status = "dangerous"], recs)
         ELSE IF p = 0
         THEN Commit(previews, reqs, [rs EXCEPT !.code = 404, !.status = "not_found"], recs)
         ELSE IF ~StartsWith(PathText(full), PathText(PathOf(recs[p].dir)))
         THEN Commit(previews, reqs,
                     [rs EXCEPT !.code = 400, !.status = "outside", !.rec = p], recs)
         ELSE IF ~ExistsPath(disk, full)
         THEN Commit(previews, reqs,
                     [rs EXCEPT !.code = 400, !.status = "no_dir", !.rec = p], recs)
         ELSE Commit(previews, reqs,
                     [rs EXCEPT !.code = 200, !.status = "ran", !.rec = p,
                                !.run = <<b.command, b.args, full>>], recs)
  /\ UNCHANGED <<cfg, lastPort, disk, now>>
  /\ NoCrash

\* ---- the supervised processes

\* the dev server binds its port and answers
ProcUp(r) ==
  /\ recs[r].proc = "booting"
  /\ ~Listening(recs, recs[r].port)
  /\ Commit(previews, reqs, NoResp, [recs EXCEPT ![r].proc = "up"])
  /\ UNCHANGED <<cfg, lastPort, disk, now, started>>
  /\ NoCrash

\* proc.on("exit"): the handler closes over id, not over the record
ExitHandlerKeep(pv, rc, i) ==
  IF pv[i] = 0 THEN <<pv, rc>>
  ELSE <<pv, [rc EXCEPT ![pv[i]].status = "crashed", ![pv[i]].lastError = TRUE]>>
ExitHandler(pv, rc, i) ==
  IF pv[i] = 0 THEN <<pv, rc>>
  ELSE <<Delete(pv, i), [rc EXCEPT ![pv[i]].status = "crashed", ![pv[i]].lastError = TRUE]>>

ProcExit(r) ==
  /\ Alive(recs, r)
  /\ LET h == ExitHandler(previews, [recs EXCEPT ![r].proc = "exited"], recs[r].id)
     IN  Commit(h[1], reqs, NoResp, h[2])
  /\ UNCHANGED <<cfg, lastPort, disk, now, started>>
  /\ crash' = [Settled EXCEPT ![recs[r].id] =
       IF previews[recs[r].id] = r /\ recs[r].status = "running" THEN -1 ELSE @]

\* spawn fails (npx not found, cwd gone): the child emits "error" and no
\* "exit"; startDev registers no "error" listener, so the event is thrown as an
\* exception nothing catches.  q is the request that still holds the record.
SpawnError(r) ==
  /\ recs[r].proc = "booting"
  /\ LET qs == {q \in Reqs : reqs[q].rec = r}
     IN  Commit(previews, reqs,
                [NoResp EXCEPT !.q = IF qs = {} THEN 0 ELSE Min(qs), !.kind = "spawn",
                               !.id = recs[r].id, !.at = "error", !.status = "uncaught",
                               !.port = recs[r].port, !.rec = r],
                [recs EXCEPT ![r].proc = "failed"])
  /\ UNCHANGED <<cfg, lastPort, disk, now, started>>
  /\ NoCrash

\* stdout / stderr data goes to the record's ring
ProcOutput(r) ==
  /\ Alive(recs, r)
  /\ Len(recs[r].logs) < cfg.maxLog
  /\ Commit(previews, reqs, NoResp, [recs EXCEPT ![r].logs = LogPush(@, DevChunk)])
  /\ UNCHANGED <<cfg, lastPort, disk, now, started>>
  /\ NoCrash

\* ---- the idle reaper

IdleAtThreshold(rec, t) == t - rec.lastHit >= IdleMs
Idle(rec, t) == t - rec.lastHit > IdleMs

Reaper ==
  /\ LET idle == {i \in Ids : previews[i] # 0 /\ Idle(recs[previews[i]], now)}
         rc == [r \in RecIds |->
                  IF (\E i \in idle : previews[i] = r) /\ Alive(recs, r)
                  THEN [recs[r] EXCEPT !.sig = TRUE] ELSE recs[r]]
         pv == [i \in Ids |-> IF i \in idle THEN 0 ELSE previews[i]]
     IN  Commit(pv, reqs, NoResp, rc)
  /\ UNCHANGED <<cfg, lastPort, disk, now, started>>
  /\ NoCrash

\* Time passes.  A readiness wait lasts at most 1000000 + 1500 ms, less than the
\* idle threshold, so the clock does not jump by the threshold during one.
Tick(d) ==
  /\ now + d <= cfg.ticks * (IdleMs + 1)
  /\ \A q \in Reqs : reqs[q].pc \notin {"probe", "tprobe"}
  /\ now' = now + d
  /\ Commit(previews, reqs, NoResp, recs)
  /\ UNCHANGED <<cfg, lastPort, disk, started>>
  /\ NoCrash

\* ---- specifications

UseIds == cfg.ids

Requests ==
  \E q \in Reqs :
    \/ \E i \in UseIds, w \in BOOLEAN : StartCreate(q, i, w)
    \/ Patch(q)
    \/ CleanDir(q)
    \/ \E ok \in BOOLEAN : CopyBoilerplate(q, ok)
    \/ WriteFiles(q)
    \/ \E ok \in BOOLEAN : Install(q, ok)
    \/ \E ok \in BOOLEAN : Probe(q, ok)
    \/ \E i \in UseIds : StartDelete(q, i)
    \/ FinishDelete(q)
    \/ \E i \in UseIds : \E u \in Urls(i) : StartTraffic(q, i, u)
    \/ TrafficNeedInstall(q)
    \/ \E ok \in BOOLEAN : TrafficInstall(q, ok)
    \/ \E ok \in BOOLEAN : TrafficProbe(q, ok)

Deploys ==
  \E q \in Reqs :
    \/ \E i \in UseIds, w \in BOOLEAN, plat \in PlatInputs : StartDeploy(q, i, w, plat)
    \/ ExtCleanDir(q)
    \/ \E ok \in BOOLEAN : ExtCopyBoilerplate(q, ok)
    \/ ExtWriteFiles(q)
    \/ \E ok \in BOOLEAN : ExtInstall(q, ok)
    \/ \E ok \in BOOLEAN : ExtDeploy(q, ok)
    \/ ExtPatchWrite(q)
    \/ \E ok \in BOOLEAN : ExtPatchDeploy(q, ok)

Queries ==
  \E q \in Reqs : \E i \in UseIds :
    \/ Upgrade(q, i)
    \/ \E kind \in Protected, hdr \in Hdrs : Rejected(q, kind, i, hdr)
    \/ \E hdr \in Hdrs : Status(q, i, hdr)
    \/ \E hdr \in Hdrs : Logs(q, i, hdr)
    \/ \E b \in Bodies : Execute(q, i, b)

Processes ==
  \E r \in RecIds : ProcUp(r) \/ ProcExit(r)

Output ==
  \E r \in RecIds : ProcOutput(r)

Clock ==
  \/ Reaper
  \/ \E d \in {IdleMs, IdleMs + 1} : Tick(d)

\* concurrent requests of the local environment and their processes
Next == Requests \/ Processes

Spec == Init /\ [][Next]_vars

\* the same with the clock and the idle reaper
InitReap ==
  /\ cfg = Scenario(FALSE, CoreIds, 2, MaxStarts, MaxTicks, 0)
  /\ \E k \in 0..(PortWindow - 1) : Preloaded(k)

NextReap == Requests \/ Processes \/ Clock

SpecReap == InitReap /\ [][NextReap]_vars

\* the same with POST /deploy and external records
InitDeploy ==
  /\ cfg = Scenario(FALSE, CoreIds, 2, MaxStarts, 0, 0)
  /\ InitState

NextDeploy == Requests \/ Deploys \/ Processes

SpecDeploy == InitDeploy /\ [][NextDeploy]_vars

\* the same with the output of the processes
InitLog ==
  /\ cfg = Scenario(FALSE, CoreIds, 2, MaxStarts, 0, MaxLog)
  /\ InitState

NextLog == Requests \/ Processes \/ Output

SpecLog == InitLog /\ [][NextLog]_vars

\* one request at a time, with POST /deploy, the clock and the idle reaper
InitIdle ==
  /\ cfg = Scenario(FALSE, CoreIds, 1, MaxStarts, MaxTicks, 0)
  /\ InitState

NextIdle == Requests \/ Deploys \/ Processes \/ Clock

SpecIdle == InitIdle /\ [][NextIdle]_vars

\* one request at a time on both environments, with a configured secret, the
\* management queries, the WebSocket upgrade, the clock and the reaper
InitGate ==
  /\ cfg \in {[Scenario(rw, CoreIds, 1, MaxStarts, MaxTicks, MaxLog) EXCEPT !.secret = "s"] :
               rw \in BOOLEAN}
  /\ InitState

NextGate == Requests \/ Deploys \/ Processes \/ Clock \/ Queries

SpecGate == InitGate /\ [][NextGate]_vars

\* one request at a time, traffic with the request URLs of the model
InitPath ==
  /\ cfg = [Scenario(FALSE, CoreIds, 1, MaxStarts, 0, 0) EXCEPT !.paths = TRUE]
  /\ \E k \in 0..1 : Preloaded(k)

SpecPath == InitPath /\ [][Next]_vars

\* concurrent requests of the local environment whose spawn may fail
Faults ==
  \E r \in RecIds : SpawnError(r)

NextSpawn == Requests \/ Processes \/ Faults

SpecSpawn == Init /\ [][NextSpawn]_vars

\* one request at a time in the local environment, with POST /deploy and the
\* request bodies of the execute endpoint
InitExec ==
  /\ cfg = [Scenario(FALSE, CoreIds, 1, MaxStarts, 0, 0) EXCEPT !.secret = "s", !.exec = TRUE]
  /\ InitState

NextExec == Requests \/ Deploys \/ Processes \/ Queries

SpecExec == InitExec /\ [][NextExec]_vars

\* POST /deploy and concurrent requests for the ids "1" and "1-v"
InitAlias ==
  /\ cfg = [Scenario(FALSE, {1, PortWindow + 1}, 2, MaxStarts, 0, 0) EXCEPT !.alias = TRUE]
  /\ InitState

SpecAlias == InitAlias /\ [][NextDeploy]_vars

\* ---- waitForReady(port, timeoutMs), attempt by attempt.  The waiter is the
\* request in slot 1: start is Date.now() at the call, due the time of the
\* next event, out what the attempt in flight will end with.

Waiter(pc, start, due, out) ==
  [kind |-> "wait", id |-> 0, pc |-> pc, wait |-> TRUE, plat |-> "none", rec |-> 0,
   url |-> <<>>, start |-> start, due |-> due, out |-> out]

\* how an http.get to 127.0.0.1:port ends: a response, or an "error" event
\* (connection refused or reset) before the socket timeout, or the "timeout"
\* event at ProbeTimeout, whose listener destroys the request, which emits "error"
Outcomes ==
  ({"response", "error"} \X {0, RetryDelay, 2 * RetryDelay, ProbeTimeout - RetryDelay})
  \cup {<<"timeout", ProbeTimeout>>}

Resolve(q, v) ==
  [NoResp EXCEPT !.q = q, !.kind = "wait", !.at = "resolve",
                 !.status = IF v THEN "true" ELSE "false"]

\* tryOnce: http.get(..) is sent
TryOnce(q, o) ==
  /\ reqs[q].kind = "wait" /\ reqs[q].pc = "tryOnce"
  /\ reqs' = [reqs EXCEPT ![q] = Waiter("pending", @.start, now + o[2], o[1])]
  /\ resp' = NoResp
  /\ UNCHANGED <<cfg, previews, recs, lastPort, disk, now, started, crash>>

\* the response callback, or the "error" listener: resolve(false) past the
\* deadline, else setTimeout(tryOnce, 300)
AttemptEnds(q) ==
  /\ reqs[q].kind = "wait" /\ reqs[q].pc = "pending"
  /\ now' = reqs[q].due
  /\ IF reqs[q].out = "response"
     THEN /\ reqs' = [reqs EXCEPT ![q].pc = "done"]
          /\ resp' = Resolve(q, TRUE)
     ELSE IF now' - reqs[q].start > cfg.timeoutMs
     THEN /\ reqs' = [reqs EXCEPT ![q].pc = "done"]
          /\ resp' = Resolve(q, FALSE)
     ELSE /\ reqs' = [reqs EXCEPT ![q] = Waiter("sleep", @.start, now' + RetryDelay, @.out)]
          /\ resp' = NoResp
  /\ UNCHANGED <<cfg, previews, recs, lastPort, disk, started, crash>>

\* the timer of setTimeout(tryOnce, 300) fires
Retry(q) ==
  /\ reqs[q].kind = "wait" /\ reqs[q].pc = "sleep"
  /\ now' = reqs[q].due
  /\ reqs' = [reqs EXCEPT ![q].pc = "tryOnce"]
  /\ resp' = NoResp
  /\ UNCHANGED <<cfg, previews, recs, lastPort, disk, started, crash>>

InitWait ==
  /\ cfg \in {[Scenario(FALSE, CoreIds, 1, 0, 0, 0) EXCEPT !.timeoutMs = t] :
               t \in {0, RetryDelay, MaxWaitMs}}
  /\ previews = [i \in Ids |-> 0]
  /\ recs = [r \in RecIds |-> NoRec]
  /\ lastPort = BASE_PORT - 1
  /\ disk = [d \in Dirs |-> NoDir]
  /\ reqs = [q \in Reqs |-> IF q = 1 THEN Waiter("tryOnce", 0, 0, "none") ELSE NoReq]
  /\ resp = NoResp
  /\ now = 0
  /\ started = 0
  /\ crash = [i \in Ids |-> 0]

NextWait ==
  \/ \E o \in Outcomes : TryOnce(1, o)
  \/ AttemptEnds(1)
  \/ Retry(1)

\* the event loop runs every callback that is due
SpecWait == InitWait /\ [][NextWait]_vars /\ WF_vars(NextWait)

\* ---- makeRing(cap) on its own.  The ring is the object in slot 1: buf is its
\* array, pushed the chunks it was handed so far.

\* the chunks a process writes: the empty string too
Chunks == {<<>>, <<"a">>, <<"b", "c">>}

Ring(cap, buf, pushed) ==
  [kind |-> "ring", id |-> 0, pc |-> "ring", wait |-> FALSE, plat |-> "none", rec |-> 0,
   url |-> <<>>, cap |-> cap, buf |-> buf, pushed |-> pushed]

\* push(s); the response shows text()
Push(q, s) ==
  /\ reqs[q].kind = "ring"
  /\ Len(reqs[q].pushed) < MaxPushes
  /\ reqs' = [reqs EXCEPT ![q] = Ring(@.cap, RingPush(@.buf, s, @.cap), Append(@.pushed, s))]
  /\ resp' = [NoResp EXCEPT !.q = q, !.kind = "ring", !.at = "push", !.logs = Text(reqs'[q].buf)]
  /\ UNCHANGED <<cfg, previews, recs, lastPort, disk, now, started, crash>>

InitRing ==
  /\ cfg = Scenario(FALSE, CoreIds, 1, 0, 0, 0)
  /\ previews = [i \in Ids |-> 0]
  /\ recs = [r \in RecIds |-> NoRec]
  /\ lastPort = BASE_PORT - 1
  /\ disk = [d \in Dirs |-> NoDir]
  /\ \E cap \in (1..MaxCap) \cup {RING_CAP} :
       reqs = [q \in Reqs |-> IF q = 1 THEN Ring(cap, <<>>, <<>>) ELSE NoReq]
  /\ resp = NoResp
  /\ now = 0
  /\ started = 0
  /\ crash = [i \in Ids |-> 0]

NextRing == \E s \in Chunks : Push(1, s)

SpecRing == InitRing /\ [][NextRing]_vars

\* More identifiers than ports.
InitAlloc ==
  /\ cfg = Scenario(FALSE, Ids, 2, MaxStarts, 0, 0)
  /\ \E k \in 0..PortWindow : Preloaded(k)

SpecAlloc == InitAlloc /\ [][Next]_vars

\* ---- properties

Registered == {i \in Ids : previews[i] # 0}
RecOf(i) == recs[previews[i]]

\* the processes spawned for id that still run
LiveProcs(i) == {r \in RecIds : recs[r].id = i /\ Alive(recs, r)}

(* C1: in every reachable state, whatever create, patch, delete, traffic,
   backend-exit and reaper steps led to it, no two records of the registry
   that hold a port hold the same port (and no two ids share a record). *)
C1_UniquePorts ==
  \A i, j \in Registered :
    i # j => /\ previews[i] # previews[j]
             /\ (RecOf(i).port # 0 /\ RecOf(j).port # 0 => RecOf(i).port # RecOf(j).port)

\* two records hold ports after the clock moved and the cursor wrapped to BASE_PORT
C1_TwoPortsHeld ==
  /\ \E i, j \in Registered : i # j /\ RecOf(i).port # 0 /\ RecOf(j).port # 0
  /\ lastPort = BASE_PORT
  /\ now > 0

Window == BASE_PORT..(BASE_PORT + PortWindow - 1)

\* the record objects with a port that exist for id i: one per process spawned
Spawned(i) == {r \in RecIds : recs[r].id = i /\ recs[r].port # 0}

\* no record object appears in the step, and none but r changes
OnlyTouches(r) ==
  \A r2 \in RecIds : r2 # r => recs'[r2] \in {recs[r2], NoRec}

(* C2: while two create requests for the same id, unknown before them, are
   in flight, at most one record with a port and a process exists for the
   id: the second request spawns nothing and allocates nothing. *)
C2_SingleSpawn ==
  \A q1, q2 \in Reqs :
    (/\ q1 # q2
     /\ reqs[q1].kind = "create" /\ reqs[q2].kind = "create"
     /\ reqs[q1].id = reqs[q2].id)
    => Cardinality(Spawned(reqs[q1].id)) <= 1

(* C3: at the moment DELETE /previews/:id answers, the registry has no record
   for the id, every running backend spawned for the id has been signalled,
   and the id's directory is not on disk. *)
C3_DeleteIsolated ==
  (resp.kind = "delete" /\ resp.at = "delrm")
  => /\ previews[resp.id] = 0
     /\ \A r \in LiveProcs(resp.id) : recs[r].sig
     /\ ~disk[LocalDir(resp.id)].exists

(* C4: a create or deploy request that finds a local record for its id
   changes nothing when it takes the patch branch, and its patch step leaves
   the registry, the cursor, every other record and the record's port,
   process, directory and status as they are: it adds the request's files to
   the record's directory, sets lastHit to the current time and answers 200
   with the record's port and status. *)
C4_PatchFrame ==
  [][\A q \in Reqs :
      /\ (reqs[q].pc # "patch" /\ reqs'[q].pc = "patch" /\ recs[reqs'[q].rec].ext = "none")
         => /\ previews' = previews /\ lastPort' = lastPort /\ disk' = disk
            /\ reqs'[q].rec = previews[reqs'[q].id]
            /\ recs'[reqs'[q].rec] = recs[reqs'[q].rec]
            /\ OnlyTouches(reqs'[q].rec)
      /\ (reqs[q].pc = "patch" /\ reqs'[q].pc # "patch" /\ recs[reqs[q].rec].ext = "none")
         => LET r == reqs[q].rec
                d == recs[r].dir
            IN  /\ previews' = previews /\ lastPort' = lastPort
                /\ recs'[r] = [recs[r] EXCEPT !.lastHit = now]
                /\ OnlyTouches(r)
                /\ disk' = [disk EXCEPT ![d] = [exists |-> TRUE, bin |-> disk[d].bin,
                                                 files |-> disk[d].files \cup {q}]]
                /\ resp'.code = 200
                /\ resp'.port = recs[r].port
                /\ resp'.status = recs[r].status
    ]_vars

\* a deploy request patched the Running record another request created
C4_PatchedRunning ==
  /\ resp.at = "patch" /\ resp.kind = "deploy" /\ resp.code = 200
  /\ resp.status = "running" /\ resp.port = BASE_PORT
  /\ previews[resp.id] = resp.rec
  /\ Alive(recs, resp.rec)
  /\ disk[LocalDir(resp.id)].files = {1, 2}
  /\ lastPort = BASE_PORT

(* C5: the first step of a delete leaves no record for the id, and when there
   was none it changes nothing; its last step answers 200 and leaves no
   directory for the id, and when there was none it changes nothing.  So a
   delete of an unknown id succeeds with no effect, and a second delete in a
   row succeeds and leaves what the first one left. *)
C5_DeleteIdempotent ==
  [][\A q \in Reqs :
      /\ (reqs[q].pc = "idle" /\ reqs'[q].pc = "delrm")
         => LET i == reqs'[q].id
            IN  /\ previews'[i] = 0
                /\ disk' = disk /\ lastPort' = lastPort
                /\ previews[i] = 0 => (previews' = previews /\ OnlyTouches(0))
      /\ (reqs[q].pc = "delrm" /\ reqs'[q].pc = "idle")
         => LET i == reqs[q].id
            IN  /\ resp'.code = 200
                /\ ~disk'[LocalDir(i)].exists
                /\ previews' = previews /\ lastPort' = lastPort /\ OnlyTouches(0)
                /\ ~disk[LocalDir(i)].exists => disk' = disk
    ]_vars

\* the second delete of id 1 in a row has answered: the first one signalled
\* the backend and removed record and directory, the second found neither
C5_SecondDelete ==
  /\ resp.at = "delrm" /\ resp.id = 1 /\ resp.rec = 0 /\ resp.code = 200
  /\ started = 2 /\ InFlight = {}
  /\ \E r \in RecIds : recs[r].id = 1 /\ recs[r].sig
  /\ previews[1] = 0
  /\ ~disk[LocalDir(1)].exists

(* C6: at the moment the delete of an id that had a record answers, the
   record is out of the registry, its process if it runs has been signalled,
   the directory stored in the record is not on disk, and the status endpoint
   answers 404 for the id. *)
C6_DeleteRemovesAll ==
  (resp.kind = "delete" /\ resp.at = "delrm" /\ resp.rec # 0)
  => /\ previews[resp.id] = 0
     /\ Alive(recs, resp.rec) => recs[resp.rec].sig
     /\ ~disk[recs[resp.rec].dir].exists
     /\ StatusEndpoint(resp.id).code = 404

(* C7: after the backend of a Running record exited, the record is out of the
   registry; the next traffic hit for the id, its directory being on disk,
   registers a record with a new port and a new process; and when its probe
   succeeds the registry holds a Running record for the id. *)
C7_CrashRecovery ==
  \A i \in Ids :
    /\ (crash[i] = -1 /\ \A q \in Reqs : reqs[q].id # i) => previews[i] = 0
    /\ \A q \in Reqs :
         (crash[i] = q /\ reqs[q].pc = "tprobe")
         => /\ recs[reqs[q].rec].port \in Window
            /\ recs[reqs[q].rec].proc # "none"
    /\ (resp.at = "tprobe" /\ resp.id = i /\ crash[i] = resp.q /\ resp.code = 200)
       => /\ previews[i] # 0
          /\ RecOf(i).status = "running"

(* C8: a reaper tick removes from the registry exactly the records whose
   lastHit is more than 30 minutes old, signals the process of each one that
   runs, leaves every other record and the disk as they are. *)
C8_ReaperExact ==
  [][Reaper =>
      LET old(i) == previews[i] # 0 /\ now - recs[previews[i]].lastHit > IdleMs
          reaped == {previews[i] : i \in {j \in Ids : old(j)}}
      IN  /\ \A i \in Ids : previews'[i] = IF old(i) THEN 0 ELSE previews[i]
          /\ \A r \in reaped :
               Alive(recs, r) => recs'[r] = [recs[r] EXCEPT !.sig = TRUE]
          /\ \A r \in RecIds \ reaped : recs'[r] \in {recs[r], NoRec}
          /\ \A i \in Ids : ~old(i) /\ previews[i] # 0 => recs'[previews[i]] = RecOf(i)
          /\ disk' = disk
          /\ lastPort' = lastPort
    ]_vars

\* the reaper removed an idle record and signalled its process, left the
\* record hit after the clock moved, and the idle one's directory is on disk
C8_ReapedOne ==
  /\ now = IdleMs + 1
  /\ \E i, j \in Ids :
       /\ i # j
       /\ previews[i] = 0
       /\ \E r \in RecIds : recs[r].id = i /\ recs[r].lastHit = 0 /\ recs[r].sig /\ Alive(recs, r)
       /\ disk[LocalDir(i)].exists
       /\ previews[j] # 0 /\ RecOf(j).lastHit = now
  /\ InFlight = {}
  /\ resp = NoResp

(* C9: when the readiness probe of a create fails, the step that answers
   sends 500 with the last characters of the record's log text, removes the
   id from the registry, and sends the spawned process no signal. *)
C9_ProbeFailure ==
  [][\A q \in Reqs :
      (reqs[q].pc = "probe" /\ reqs'[q].pc # "probe" /\ resp'.status # "running")
      => LET r == reqs[q].rec
             t == Text(recs[r].logs)
             n == IF Len(t) < TailChars THEN Len(t) ELSE TailChars
         IN  /\ resp'.code = 500
             /\ resp'.logs = SubSeq(t, Len(t) - n + 1, Len(t))
             /\ previews'[reqs[q].id] = 0
             /\ recs'[r].sig = recs[r].sig
             /\ recs'[r].proc = recs[r].proc
    ]_vars

\* a create got the error with a log text cut to its last characters, its
\* process still runs unsignalled and the registry has no record for the id
C9_TimedOut ==
  /\ resp.at = "probe" /\ resp.kind = "create" /\ resp.code = 500
  /\ Len(resp.logs) = TailChars
  /\ Len(Text(recs[resp.rec].logs)) > TailChars
  /\ Alive(recs, resp.rec) /\ ~recs[resp.rec].sig
  /\ previews[resp.id] = 0

\* some record of the registry holds port c
HeldPort(c) == \E i \in Registered : RecOf(i).port = c

(* C10: in every state nextFreePort returns a port of the window that no
   record of the registry holds when there is one, and fails exactly when
   every port of the window is held; a create whose install ends when every
   port is held registers nothing, spawns nothing and answers 500. *)
C10_Allocate ==
  /\ [](LET p == nextFreePort(previews, recs, lastPort)
        IN  /\ p # 0 => (p \in Window /\ ~HeldPort(p))
            /\ p = 0 <=> \A c \in Window : HeldPort(c))
  /\ [][\A q \in Reqs :
         (/\ reqs[q].pc = "install" /\ reqs'[q].pc # "install"
          /\ \A c \in Window : HeldPort(c))
         => /\ resp'.code = 500
            /\ previews' = previews
            /\ lastPort' = lastPort
            /\ OnlyTouches(0)
       ]_vars

\* a create whose install succeeded got 500 because every port was held
C10_Exhausted ==
  /\ resp.at = "install" /\ resp.kind = "create" /\ resp.code = 500
  /\ disk[LocalDir(resp.id)].bin
  /\ previews[resp.id] = 0
  /\ \A c \in Window : HeldPort(c)

(* C11: in every step in which a backend process is spawned (POST /previews,
   the local flow of /deploy, the self-heal of /p/:id), the same step
   allocated its port and registered its record: after the step the registry
   holds that record under the id with status Starting and the port the
   process binds, a port of the window no record held before, and the cursor
   is on it. *)
C11_RegisterBeforeSpawn ==
  [][\A r \in RecIds :
      (recs[r].id = 0 /\ recs'[r].id # 0 /\ recs'[r].ext = "none")
      => /\ recs'[r].proc = "booting"
         /\ previews'[recs'[r].id] = r
         /\ recs'[r].status = "starting"
         /\ recs'[r].port \in Window
         /\ ~HeldPort(recs'[r].port)
         /\ lastPort' = recs'[r].port
         /\ \E q \in Reqs : reqs'[q].rec = r \/ (resp'.q = q /\ resp'.rec = r)
    ]_vars

\* the self-heal of /p/:id has just spawned a backend for a registered record
C11_SelfHealSpawned ==
  \E q \in Reqs :
    /\ reqs[q].kind = "traffic" /\ reqs[q].pc = "tprobe"
    /\ recs[reqs[q].rec].proc = "booting"
    /\ previews[reqs[q].id] = reqs[q].rec
    /\ recs[reqs[q].rec].status = "starting"
    /\ lastPort = recs[reqs[q].rec].port

(* C12: a record object enters the model with status Starting (Deployed for
   an external one), and a step makes a record Running only when it resumes
   the request that waits for that record's readiness, the record has a
   process, and something answers on the record's port. *)
C12_RunningAfterProbe ==
  [][\A r \in RecIds :
      /\ (recs[r].id = 0 /\ recs'[r].id # 0)
         => recs'[r].status = IF recs'[r].ext = "none" THEN "starting" ELSE "deployed"
      /\ (recs'[r].id # 0 /\ recs'[r].status = "running" /\ recs[r].status # "running")
         => /\ recs[r].id = recs'[r].id
            /\ recs[r].proc # "none"
            /\ Listening(recs, recs[r].port)
            /\ \E q \in Reqs :
                 /\ reqs[q].rec = r
                 /\ reqs[q].pc \in {"probe", "tprobe"}
                 /\ reqs'[q].pc = "idle"
    ]_vars

\* a create with wait = true was answered Running after its backend came up
C12_CreateRunning ==
  /\ resp.at = "probe" /\ resp.kind = "create" /\ resp.code = 200
  /\ previews[resp.id] = resp.rec
  /\ recs[resp.rec].status = "running"
  /\ recs[resp.rec].proc = "up"

\* the last step answered a check of record resp.rec: a proxied traffic hit,
\* a patch or a status query
Checked ==
  /\ resp.rec # 0
  /\ resp.code = 200
  /\ \/ resp.kind = "traffic" /\ resp.at = "start"
     \/ resp.at = "patch"
     \/ resp.kind = "status"

(* C13: a create with wait = false answers with status Starting and leaves
   its record Starting; and when a traffic hit, a patch or a status query has
   been answered for a local record whose backend answers on its port, the
   record's status is Running. *)
C13_StatusCorrected ==
  /\ (resp.kind = "create" /\ resp.at = "install" /\ resp.code = 200)
     => (resp.status = "starting" /\ recs[resp.rec].status = "starting")
  /\ (Checked /\ recs[resp.rec].ext = "none" /\ recs[resp.rec].proc = "up")
     => recs[resp.rec].status = "running"

\* request q has just registered and spawned a backend and waits for it;
\* nothing was answered
SelfHealed(q) ==
  LET r == reqs'[q].rec
  IN  /\ reqs'[q].pc = "tprobe"
      /\ recs[r].id = 0
      /\ previews' = [previews EXCEPT ![reqs[q].id] = r]
      /\ recs'[r].id = reqs[q].id
      /\ recs'[r].status = "starting"
      /\ recs'[r].proc = "booting"
      /\ recs'[r].port \in Window /\ ~HeldPort(recs'[r].port)
      /\ resp' = NoResp

\* request q moved to position pc and nothing else changed
OnlyMoved(q, pc) ==
  /\ reqs'[q].pc = pc
  /\ previews' = previews /\ lastPort' = lastPort /\ disk' = disk
  /\ OnlyTouches(0)
  /\ resp' = NoResp

(* C14: a traffic hit for an id with no record whose directory is on disk
   first decides whether an install is needed, installs only then, and, a
   port being free, registers a Starting record on a free port and spawns its
   process before anything is answered; when the probe then succeeds the hit
   is proxied, and when it fails the answer is 503 and the registry has no
   record for the id. *)
C14_SelfHeal ==
  [][\A q \in Reqs :
      LET i == reqs[q].id
          d == LocalDir(i)
          free == \E c \in Window : ~HeldPort(c)
      IN  /\ \A j \in Ids : \A u \in Urls(j) :
               (StartTraffic(q, j, u) /\ previews[j] = 0 /\ disk[LocalDir(j)].exists)
               => OnlyMoved(q, "needInstall")
          /\ (reqs[q].pc = "needInstall" /\ reqs'[q].pc # "needInstall")
             => IF ~(disk[d].exists /\ disk[d].bin) THEN OnlyMoved(q, "tinstall")
                ELSE free => (SelfHealed(q) /\ disk' = disk)
          /\ (reqs[q].pc = "tinstall" /\ reqs'[q].pc = "tprobe")
             => (SelfHealed(q) /\ disk'[d].bin)
          /\ (reqs[q].pc = "tprobe" /\ reqs'[q].pc # "tprobe")
             => IF Listening(recs, recs[reqs[q].rec].port)
                THEN /\ resp'.code = 200
                     /\ resp'.port = recs[reqs[q].rec].port
                     /\ previews' = previews
                ELSE /\ resp'.code = 503
                     /\ previews'[i] = 0
    ]_vars

\* a self-heal whose probe failed answered 503; the id has no record and the
\* spawned process still runs
C14_RetrySoon ==
  /\ resp.kind = "traffic" /\ resp.at = "tprobe" /\ resp.code = 503
  /\ previews[resp.id] = 0
  /\ Alive(recs, resp.rec)
  /\ disk[LocalDir(resp.id)].bin

(* C15: a traffic hit for an id with no record and no directory on disk is
   answered 404 in its first step, and that step leaves the registry, the
   cursor, the record objects and their processes, the disk and the requests
   in flight as they were. *)
C15_NotFoundNoEffect ==
  [][\A q \in Reqs : \A i \in Ids : \A u \in Urls(i) :
      (StartTraffic(q, i, u) /\ previews[i] = 0 /\ ~disk[LocalDir(i)].exists)
      => /\ resp'.kind = "traffic" /\ resp'.id = i /\ resp'.code = 404
         /\ reqs' = reqs
         /\ previews' = previews
         /\ lastPort' = lastPort
         /\ disk' = disk
         /\ OnlyTouches(0)
    ]_vars

\* a hit for an unknown id was answered 404 while another id's backend runs
C15_UnknownId ==
  /\ resp.kind = "traffic" /\ resp.at = "start" /\ resp.code = 404 /\ resp.rec = 0
  /\ previews[resp.id] = 0
  /\ ~disk[LocalDir(resp.id)].exists
  /\ \A r \in RecIds : recs[r].id # resp.id
  /\ \E j \in Registered : j # resp.id /\ Alive(recs, previews[j])

\* the last step served a traffic hit for record resp.rec: a proxied HTTP
\* request, a proxied WebSocket upgrade, or a redirect to a deployment
Served ==
  /\ resp.rec # 0
  /\ \/ resp.kind = "traffic" /\ resp.code \in {200, 302}
     \/ resp.kind = "upgrade" /\ resp.code = 101

(* C16: when a traffic hit has been served for a record, by proxying an HTTP
   request, by proxying a WebSocket upgrade or by redirecting to a
   deployment, the record's lastHit is the time of the hit. *)
C16_ServedRefreshes ==
  Served => recs[resp.rec].lastHit = now

\* the answers that tell the client to retry shortly: the 503 of the
\* self-heal and the 502 of proxy.on("error")
RetrySoon == {502, 503}

(* C17: a traffic hit that finds a local record with status Starting, a
   record whose backend passed no readiness probe, is answered with a
   retry-soon response: it is not forwarded to the backend and gets no other
   error. *)
C17_StartingRetrySoon ==
  (/\ resp.kind = "traffic" /\ resp.at = "start" /\ resp.rec # 0
   /\ recs[resp.rec].ext = "none"
   /\ recs[resp.rec].status = "starting")
  => resp.code \in RetrySoon

\* {rest} of a request URL /p/{id}{rest}
RestOf(u, i) == SubSeq(u, Len(Prefix(i)) + 1, Len(u))

\* the URLs the backend may be handed for {rest}: {rest} itself, "/" when it
\* is empty, and {rest} behind a "/" when it is a bare query string
Stripped(u, i) ==
  LET rest == RestOf(u, i)
  IN  IF rest = <<>> THEN {<<"/">>}
      ELSE IF Head(rest) = "/" THEN {rest}
      ELSE {rest, <<"/">> \o rest}

(* C18: a request for /p/{id}{rest} that is forwarded to the backend is
   forwarded with the URL {rest}, "/" when {rest} is empty, query string
   included: only the leading /p/{id} is removed, a later occurrence of the
   text /p/{id} inside {rest} stays. *)
C18_PathRewrite ==
  [][\A q \in Reqs : \A i \in Ids : \A u \in Urls(i) :
       (StartTraffic(q, i, u) /\ resp'.code = 200)
       => resp'.url \in Stripped(u, i)]_vars

\* the last step handed a request to the proxy: proxy.web from /p/:id, which
\* carries the rewritten URL, or proxy.ws from the upgrade listener
Proxied ==
  /\ resp.rec # 0
  /\ \/ resp.kind = "traffic" /\ resp.url # <<>>
     \/ resp.kind = "upgrade"

(* C19: when the proxy cannot connect to the backend of the record it looked
   up, the request is answered 502, or the client socket is destroyed when
   headers were already sent; the failure is never an exception that nothing
   handles. *)
C19_ProxyFailureHandled ==
  (Proxied /\ ~Listening(recs, resp.port))
  => (resp.code = 502 \/ resp.status = "destroyed")

\* the management endpoints
Management == {"create", "deploy", "delete", "status", "logs", "execute"}

(* C20: with a secret configured, a management request (create/patch,
   deploy, delete, status, logs, execute) whose Authorization header is not
   exactly "Bearer <secret>" is answered 401. *)
C20_ManagementAuth ==
  (/\ AUTH_TOKEN # ""
   /\ resp.kind \in Management
   /\ resp.hdr # Bearer(AUTH_TOKEN))
  => resp.code = 401

\* every registered record with a process handle has a port, none is Crashed
NoCrashedEntry ==
  \A i \in Registered :
    /\ RecOf(i).proc # "none" => RecOf(i).port # 0
    /\ RecOf(i).status # "crashed"

\* a step that sets a record to Crashed takes it out of the registry
CrashRemoves ==
  \A r \in RecIds :
    (recs[r].status # "crashed" /\ recs'[r].status = "crashed")
    => /\ recs[r].id \in Registered
       /\ previews[recs[r].id] = r
       /\ previews'[recs[r].id] = 0

(* C21: in every reachable state each record of the registry that has a
   process handle has a port and no record of the registry has status
   Crashed: the step of a backend exit that sets Crashed also removes the
   record from the registry. *)
C21_NoCrashedEntry ==
  []NoCrashedEntry /\ [][CrashRemoves]_vars

\* a request still holds a record its backend's exit set to Crashed, while a
\* record with a process is registered
C21_CrashedHeld ==
  /\ \E r \in RecIds : recs[r].status = "crashed" /\ \E q \in Reqs : reqs[q].rec = r
  /\ \E i \in Registered : RecOf(i).proc # "none"

(* C22: a failure to spawn the backend process is reported as an error to
   the request that triggered the spawn, leaves no record for the id in the
   registry and is not an error event without a handler. *)
C22_SpawnFailureReported ==
  resp.kind = "spawn"
  => /\ resp.q # 0
     /\ resp.code \in {500, 503}
     /\ previews[resp.id] = 0
     /\ resp.status # "uncaught"

(* C23: no error raised while a request is handled is left unhandled or ends
   the coordinator: every create, deploy, delete and traffic request that
   ends, ends with an HTTP response, also when the port window is exhausted
   in the self-heal of /p/{id}. *)
C23_ErrorsAnswered ==
  (resp.q # 0 /\ resp.kind \in {"create", "deploy", "delete", "traffic"})
  => (resp.code # 0 /\ resp.status # "unhandled")

\* request q is in the external branch of POST /previews and takes the step
ExtPatchStep(q) ==
  /\ reqs[q].pc \in {"xpwrite", "xpdeploy"}
  /\ reqs'[q] # reqs[q]

(* C24: a patch (POST /previews) for an id whose record has an external
   platform goes to the re-deploy; no step of it allocates a port, creates a
   record or spawns a process; when the re-deploy succeeds the record's
   deploymentUrl is the new URL, and when it fails the request is answered
   with an error and the record's deploymentUrl, status and lastHit are
   unchanged. *)
C24_ExternalPatch ==
  [][\A q \in Reqs :
       /\ (\E i \in Registered, w \in BOOLEAN : StartCreate(q, i, w) /\ RecOf(i).ext # "none")
          => reqs'[q].pc = "xpwrite" /\ reqs'[q].rec = previews[reqs'[q].id]
       /\ ExtPatchStep(q)
          => /\ lastPort' = lastPort
             /\ previews' = previews
             /\ \A r \in RecIds : recs'[r].id # 0 => recs[r].id # 0
             /\ \A r \in RecIds : Alive(recs', r) => Alive(recs, r)
       /\ (ExtPatchStep(q) /\ reqs[q].pc = "xpdeploy")
          => LET r == reqs[q].rec
             IN  /\ resp'.q = q /\ resp'.code \in {200, 500}
                 /\ resp'.code = 200
                    => /\ recs'[r].url = q
                       /\ recs'[r].lastHit = now
                       /\ recs'[r].status = recs[r].status
                 /\ resp'.code = 500
                    => /\ recs'[r].url = recs[r].url
                       /\ recs'[r].status = recs[r].status
                       /\ recs'[r].lastHit = recs[r].lastHit]_vars

\* a re-deploy replaced the URL another request's deploy had registered
C24_Redeployed ==
  /\ resp.kind = "create" /\ resp.at = "xpdeploy" /\ resp.code = 200
  /\ recs[resp.rec].ext # "none"
  /\ recs[resp.rec].url = resp.q
  /\ previews[resp.id] = resp.rec

(* C25: a traffic hit for an id whose record is Deployed (external platform,
   deploymentUrl set, no port) is answered at once with a redirect to the
   record's deploymentUrl, on Railway and in the local environment. *)
C25_DeployedRedirects ==
  (/\ resp.kind = "traffic" /\ resp.at = "start" /\ resp.rec # 0
   /\ recs[resp.rec].status = "deployed"
   /\ recs[resp.rec].ext # "none"
   /\ recs[resp.rec].url # 0
   /\ recs[resp.rec].port = 0)
  => resp.code = 302

(* C26: in the Railway production mode (forced external deployment) no
   sequence of /deploy, /previews and /p/{id} requests allocates a local
   port, spawns a local backend process or registers a record with a port. *)
C26_RailwayExternalOnly ==
  (IS_RAILWAY /\ FORCE_EXTERNAL_DEPLOYMENT)
  => /\ lastPort = BASE_PORT - 1
     /\ \A r \in RecIds : recs[r].port = 0 /\ recs[r].proc = "none"

\* path is dir or lies below it
Within(path, dir) == Len(dir) <= Len(path) /\ SubSeq(path, 1, Len(dir)) = dir

(* C27: the execute endpoint runs only commands of the whitelist, with at
   most 10 arguments none of which matches a dangerous pattern, and with a
   working directory inside the preview's own directory; a request it
   rejects gets an error and no process is spawned for it. *)
C27_ExecuteConfined ==
  resp.kind = "execute"
  => /\ resp.run # <<>>
        => /\ resp.run[1] \in allowedCommands
           /\ Len(resp.run[2]) <= MaxArgs
           /\ \A k \in 1..Len(resp.run[2]) : ~Dangerous(resp.run[2][k])
           /\ Within(resp.run[3], PathOf(recs[resp.rec].dir))
     /\ resp.code # 200 => resp.code \in {400, 401, 404} /\ resp.run = <<>>

\* the step leaves id B's entry, its record (port, process, directory, status,
\* lastHit) and its directories as they are
Untouched(B) ==
  /\ previews'[B] = previews[B]
  /\ previews[B] # 0
     => /\ recs'[previews[B]] = recs[previews[B]]
        /\ disk'[recs[previews[B]].dir] = disk[recs[previews[B]].dir]
  /\ disk'[LocalDir(B)] = disk[LocalDir(B)]

(* C28: operations on one id do not affect another id: every step of a
   create, patch, deploy, delete or traffic request and every backend exit
   is the step of one id A, and it leaves the record and the directory of
   every other id B unchanged. *)
C28_IdsIndependent ==
  [][\E A \in Ids : \A B \in Ids \ {A} : Untouched(B)]_vars

\* the port after x in the cyclic order of the window
After(x) == IF x + 1 \in Window THEN x + 1 ELSE BASE_PORT

\* the first port after x, going round at most n ports, that no record holds
RECURSIVE FirstFree(_, _)
FirstFree(x, n) ==
  IF n = 0 THEN 0
  ELSE IF ~HeldPort(After(x)) THEN After(x)
  ELSE FirstFree(After(x), n - 1)

(* C29: the cursor stays within [BASE_PORT - 1, BASE_PORT + window - 1];
   each allocation returns the first port, going cyclically forward from the
   port after the cursor, that no record holds, and moves the cursor to it;
   hence the port the cursor stands on is returned again only when no other
   port of the window is free. *)
C29_RollingCursor ==
  /\ [](lastPort \in (BASE_PORT - 1)..(BASE_PORT + PortWindow - 1))
  /\ [](nextFreePort(previews, recs, lastPort) = FirstFree(lastPort, PortWindow))
  /\ [][\A r \in RecIds :
         (recs[r].id = 0 /\ recs'[r].id # 0 /\ recs'[r].port # 0)
         => /\ recs'[r].port = FirstFree(lastPort, PortWindow)
            /\ lastPort' = recs'[r].port
            /\ recs'[r].port = lastPort => \A c \in Window \ {lastPort} : HeldPort(c)
       ]_vars
  /\ [][lastPort' # lastPort
        => \E r \in RecIds : recs[r].id = 0 /\ recs'[r].port = lastPort']_vars

\* an allocation went round the end of the window: the record just registered
\* holds BASE_PORT, the cursor stands on it and the last port of the window is held
C29_Wrapped ==
  /\ lastPort = BASE_PORT
  /\ \E i \in Registered : RecOf(i).port = BASE_PORT /\ RecOf(i).status = "starting"
  /\ HeldPort(BASE_PORT + PortWindow - 1)

\* waitForReady has resolved
Resolved == reqs[1].kind = "wait" /\ reqs[1].pc = "done"

(* C30: waitForReady(port, timeout) terminates; it resolves true at the
   moment a probe receives a response; it resolves false only when a probe
   failed or timed out later than the deadline; and it never resolves later
   than the deadline plus one per-attempt timeout (1500 ms). *)
C30_WaitTerminates ==
  /\ <>Resolved
  /\ [][(reqs[1].pc = "pending" /\ reqs[1].out = "response")
        => (Resolved' /\ resp'.status = "true")]_vars
  /\ []((Resolved /\ resp.status = "false")
        => (reqs[1].out # "response" /\ now - reqs[1].start > cfg.timeoutMs))
  /\ [](Resolved => now <= reqs[1].start + cfg.timeoutMs + ProbeTimeout)

(* C31: a traffic hit for an id with no record whose directory holds
   node_modules/.bin/next runs no install: its step after the check registers
   a Starting record on a free port with an empty log and a spawned process
   and waits for the probe, the disk unchanged; a hit goes to the install
   only when the binary is missing; and when the install leaves no binary
   the step answers 500 and registers, allocates and spawns nothing. *)
C31_FastPath ==
  [][\A q \in Reqs :
      LET i == reqs[q].id
          d == LocalDir(i)
      IN  /\ (/\ reqs[q].pc = "needInstall" /\ reqs'[q].pc # "needInstall"
              /\ disk[d].exists /\ disk[d].bin)
             => /\ reqs'[q].pc # "tinstall"
                /\ disk' = disk
                /\ (\E c \in Window : ~HeldPort(c))
                   => (SelfHealed(q) /\ recs'[reqs'[q].rec].logs = <<>>)
          /\ (reqs[q].pc # "tinstall" /\ reqs'[q].pc = "tinstall")
             => ~(disk[LocalDir(reqs'[q].id)].exists /\ disk[LocalDir(reqs'[q].id)].bin)
          /\ (reqs[q].pc = "tinstall" /\ reqs'[q].pc # "tinstall" /\ ~disk'[d].bin)
             => /\ previews' = previews /\ lastPort' = lastPort
                /\ OnlyTouches(0)
                /\ resp'.q = q /\ resp'.code = 500
    ]_vars

\* a hit on an id whose record is gone and whose binary is installed waits for
\* the probe of the backend it spawned, no install output in its log
C31_NoInstall ==
  \E q \in Reqs :
    /\ reqs[q].kind = "traffic" /\ reqs[q].pc = "tprobe"
    /\ previews[reqs[q].id] = reqs[q].rec
    /\ recs[reqs[q].rec].logs = <<>>
    /\ recs[reqs[q].rec].proc = "booting"
    /\ disk[LocalDir(reqs[q].id)].bin

(* C32: the log ring never holds more chunks than its capacity, and after n
   pushes its text is the concatenation, in the order pushed, of the last
   min(n, capacity) chunks; the capacity is 4000 or a small one. *)
C32_RingKeepsLast ==
  reqs[1].kind = "ring"
  => LET n == Len(reqs[1].pushed)
         k == IF n < reqs[1].cap THEN n ELSE reqs[1].cap
     IN  /\ Len(reqs[1].buf) <= reqs[1].cap
         /\ Len(reqs[1].buf) = k
         /\ Text(reqs[1].buf) = Text(SubSeq(reqs[1].pushed, n - k + 1, n))
         /\ resp.kind = "ring" => resp.logs = Text(SubSeq(reqs[1].pushed, n - k + 1, n))

\* a ring of capacity 2 was handed four chunks and dropped text with the two oldest
C32_Dropped ==
  /\ reqs[1].kind = "ring" /\ reqs[1].cap = 2
  /\ Len(reqs[1].pushed) = 4
  /\ Len(reqs[1].buf) = 2
  /\ resp.logs # Text(reqs[1].pushed)
  /\ resp.logs = reqs[1].pushed[3] \o reqs[1].pushed[4]

(* C33: when the process of record r exits, the exit callback touches the
   registry entry of r only: an entry that holds another record (the newer
   backend of the same id) stays in the registry, and that record's status
   and lastError stay as they are. *)
C33_ExitOwnRecord ==
  [][\A r \in RecIds :
      (Alive(recs, r) /\ recs'[r].proc = "exited")
      => \A i \in Registered :
           previews[i] # r
           => /\ previews'[i] = previews[i]
              /\ recs'[previews[i]].status = RecOf(i).status
              /\ recs'[previews[i]].lastError = RecOf(i).lastError
    ]_vars

(* C34: the step that answers a failed readiness wait (500 from a create or
   deploy, 503 from a traffic hit) removes from the registry only the record
   the request registered: an entry that holds another record stays. *)
C34_TimeoutOwnRecord ==
  [][\A q \in Reqs :
      (/\ reqs[q].pc \in {"probe", "tprobe"} /\ reqs'[q].pc = "idle"
       /\ resp'.q = q /\ resp'.code \in {500, 503})
      => \A i \in Registered :
           previews[i] # reqs[q].rec => previews'[i] = previews[i]
    ]_vars

(* C35: every process that was spawned, has not exited and was not sent
   SIGTERM is the process of the record the registry holds for its id. *)
C35_NoOrphan ==
  \A r \in RecIds :
    (Alive(recs, r) /\ ~recs[r].sig) => previews[recs[r].id] = r

(* C36: a step that registers a new record with a port never takes a port
   that was given to a process of this gateway that has not exited. *)
C36_PortOfLiveProcess ==
  [][\A n \in RecIds :
      (recs[n].id = 0 /\ recs'[n].id # 0 /\ recs'[n].port # 0)
      => ~\E r \in RecIds : Alive(recs, r) /\ recs[r].port = recs'[n].port
    ]_vars

(* C37: at the moment a create or deploy that waited, or a self-healing
   traffic hit, answers with success, status Running and a port, the registry
   holds a record for the id whose status is Running, whose port is that
   port and whose process has not exited. *)
C37_RunningIsRegistered ==
  (/\ resp.at \in {"probe", "tprobe"}
   /\ resp.code = 200 /\ resp.status = "running" /\ resp.port # 0)
  => /\ previews[resp.id] # 0
     /\ RecOf(resp.id).status = "running"
     /\ RecOf(resp.id).port = resp.port
     /\ Alive(recs, previews[resp.id])

(* C38: the files that create and patch requests wrote into the directory of
   an id stay there until a delete of that id: the only step after which
   some of them are gone is the last step of a DELETE of the id. *)
C38_FilesPersist ==
  [][\A i \in Ids :
      ~(disk[LocalDir(i)].files \subseteq disk'[LocalDir(i)].files)
      => \E q \in Reqs :
           /\ reqs[q].kind = "delete" /\ reqs[q].id = i
           /\ reqs[q].pc = "delrm" /\ reqs'[q].pc = "idle"
    ]_vars

(* C39: while two traffic hits for the same id, which had no record and has
   a directory, are self-healing at the same time, at most one record with a
   port and a process exists for the id: the second hit allocates and spawns
   nothing. *)
C39_SingleSelfHeal ==
  \A q1, q2 \in Reqs :
    (/\ q1 # q2
     /\ reqs[q1].kind = "traffic" /\ reqs[q2].kind = "traffic"
     /\ reqs[q1].id = reqs[q2].id
     /\ reqs[q1].pc \in {"needInstall", "tinstall", "tprobe"}
     /\ reqs[q2].pc \in {"needInstall", "tinstall", "tprobe"})
    => Cardinality(Spawned(reqs[q1].id)) <= 1

(* C40: after the backend of an id's Running record exited, and until another
   request for the id starts, GET /previews/{id}/status answers 200 with
   status Crashed and the recorded lastError. *)
C40_CrashReasonKept ==
  (/\ resp.kind = "status" /\ resp.at = "start"
   /\ crash[resp.id] = -1
   /\ \A q \in Reqs : reqs[q].id # resp.id)
  => /\ resp.code = 200
     /\ resp.status = "crashed"
     /\ StatusEndpoint(resp.id).lastError

====
